---- MODULE Spec2Model ----
(***************************************************************************)
(* reddit2telegram: the upvoted-posts poller (reddit_api.py), the state    *)
(* store (state.py), the rate-limit retry wrapper (utils.py) and the run   *)
(* loop (main.py), as state machines.                                      *)
(***************************************************************************)
EXTENDS Integers, Sequences, FiniteSets, TLC

VARIABLES
    mode,           \* which part of the program this behaviour exercises
    \* get_upvoted (reddit_api.py)
    page,           \* the "children" list of the listing response, newest first
    fetched,        \* the outcome of get_upvoted, or NotCalled
    \* flood_wait (utils.py)
    func,           \* what the wrapped coroutine does on its 1st, 2nd, ... invocation
    waited,         \* the outcome of flood_wait, or NotCalled
    \* RedditClient tokens (reddit_api.py)
    reddit,         \* the client's _access_token, _refresh_token, _expires_at
    now,            \* time(), in whole seconds
    token_call,     \* the last token operation: its inputs and outcome
    \* State (state.py)
    db,             \* the shelve file: key -> value
    state,          \* the State object in memory
    dump_pc,        \* how many statements of State.dump have run
    prev,           \* the stored record when the dump began
    loaded,         \* the outcome of State.load, or NotCalled
    \* main (main.py)
    pc,             \* where main is: start, poll, notify, sleep300, deliver,
                    \* advance, sleep60, halted (an exception left main)
    reddit_last_known_id,
    posts,          \* the result of the poll of this cycle
    idx,            \* the position of "for post in posts"
    sent,           \* the sends made on the channel, in order
    notified,       \* a message went to the log chat since the last poll began
    failure,        \* where the last exception was raised, or "none"
    at_poll,        \* the cursor and the number of sends when the poll began
    feed,           \* the user's upvoted posts, oldest first: feed[n] has fullname n
    quiet,          \* history: the cycles in a row, up to now, whose poll
                    \* succeeded and returned no post (counted in quiet runs)
    no_new_posts,   \* the no-new-posts counter of the run loop
    probed          \* the outcome of refetch_upvoted_maybe, or NotCalled

extractVars == <<page, fetched>>
retryVars == <<func, waited>>
tokenVars == <<reddit, now, token_call>>
stateVars == <<db, state, dump_pc, prev, loaded>>
loopVars == <<pc, reddit_last_known_id, posts, idx, sent, notified, failure,
              at_poll, feed, quiet, no_new_posts, probed>>
vars == <<mode, page, fetched, func, waited, reddit, now, token_call,
          db, state, dump_pc, prev, loaded,
          pc, reddit_last_known_id, posts, idx, sent, notified, failure,
          at_poll, feed, quiet, no_new_posts, probed>>

(***************************************************************************)
(* Bounds of the model.                                                    *)
(***************************************************************************)
MaxItems == 4       \* most items of a generated gallery

(***************************************************************************)
(* Python outcomes: a call either returns a value or raises.               *)
(***************************************************************************)
NotCalled == [st |-> "none"]
Raise(exc) == [st |-> "raise", exc |-> exc]

(***************************************************************************)
(* Raw post payloads (untrusted JSON).  A field that may be missing or of  *)
(* the wrong type carries a tag saying which.                              *)
(*   gallery_data   : tag absent | notdict | noitems | notlist | ok        *)
(*   media_metadata : tag absent | notdict | ok, table media_id -> entry   *)
(*   entry          : null | no_s | s_notdict | no_u | u_notstr | u_empty  *)
(*                    | a url                                              *)
(*   media          : tag absent | notdict | no_rv | rv_notdict | ok       *)
(*   preview        : tag falsy | notdict | noimages | notlist | empty |   *)
(*                    img_notdict | nosource | source_notdict | nourl |    *)
(*                    url_notstr | url_empty | ok                          *)
(***************************************************************************)
EntryDefects == {"no_s", "s_notdict", "no_u", "u_notstr", "u_empty"}
ItemKinds == {"no_media_id", "unresolved", "null", "ok"} \cup EntryDefects

UrlOf(k) == <<"u", k>>

\* A gallery item of the generated payloads: item k refers to media_id k.
GalleryItem(kinds, k) ==
    IF kinds[k] = "no_media_id" THEN [has_media_id |-> FALSE, media_id |-> 0]
    ELSE [has_media_id |-> TRUE, media_id |-> k]

GalleryTable(kinds) ==
    [k \in {j \in 1..Len(kinds) : kinds[j] \notin {"no_media_id", "unresolved"}} |->
        IF kinds[k] = "ok" THEN [kind |-> "ok", u |-> UrlOf(k)]
        ELSE [kind |-> kinds[k], u |-> <<>>]]

NoGallery == [tag |-> "absent", items |-> <<>>]
NoMetadata == [tag |-> "absent", table |-> <<>>]
VideoFieldNames == {"fallback_url", "width", "height", "duration"}
VideoValues(n) ==
    [fallback_url |-> <<"v", n>>, width |-> 640, height |-> 360, duration |-> 12]
NoMedia ==
    [tag |-> "absent",
     reddit_video |-> [st |-> [f \in VideoFieldNames |-> "absent"],
                       val |-> VideoValues(0)]]
NoPreview == [tag |-> "falsy", url |-> <<>>]

BasePost ==
    [kind |-> "t3", name |-> 0, is_gallery |-> FALSE, is_video |-> FALSE,
     gallery_data |-> NoGallery, media_metadata |-> NoMetadata,
     media |-> NoMedia, preview |-> NoPreview]

(***************************************************************************)
(* reddit_api.py: media items and posts.                                   *)
(***************************************************************************)
RedditPostMediaImage(url) ==
    [cls |-> "image", url |-> url, width |-> 0, height |-> 0, duration |-> 0]

RedditPostMediaVideo(url, width, height, duration) ==
    [cls |-> "video", url |-> url, width |-> width, height |-> height,
     duration |-> duration]

RedditPost(fullname, media) == [fullname |-> fullname, media |-> media]

Skip(why) == [st |-> "skip", why |-> why]
Media(media) == [st |-> "ok", media |-> media]

(***************************************************************************)
(* get_upvoted, the gallery branch.  The log lines of the two structural   *)
(* checks format post['gallery_data'] and post['media_metadata'], which    *)
(* raises KeyError when the key is the thing that is missing.              *)
(***************************************************************************)
RECURSIVE gallery_items(_, _, _, _)
gallery_items(items, table, i, media) ==
    IF i > Len(items) THEN Media(media)
    ELSE LET item == items[i] IN
         IF ~item.has_media_id
         THEN gallery_items(items, table, i + 1, media)
         ELSE IF item.media_id \notin DOMAIN table
         THEN Raise("KeyError")
         ELSE LET metadata == table[item.media_id] IN
              IF metadata.kind = "null"
              THEN Raise("TypeError")
              ELSE IF metadata.kind \in EntryDefects
              THEN gallery_items(items, table, i + 1, media)
              ELSE gallery_items(items, table, i + 1,
                                 Append(media, RedditPostMediaImage(metadata.u)))

gallery_branch(post) ==
    IF post.gallery_data.tag # "ok"
    THEN IF post.gallery_data.tag = "absent" THEN Raise("KeyError")
         ELSE Skip("gallery_data")
    ELSE IF post.media_metadata.tag # "ok"
    THEN IF post.media_metadata.tag = "absent" THEN Raise("KeyError")
         ELSE Skip("media_metadata")
    ELSE gallery_items(post.gallery_data.items, post.media_metadata.table, 1, <<>>)

(***************************************************************************)
(* get_upvoted, the native-video branch.                                   *)
(***************************************************************************)
video_branch(post) ==
    IF post.media.tag # "ok"
    THEN IF post.media.tag = "absent" THEN Raise("KeyError")
         ELSE Skip("media")
    ELSE LET video_info == post.media.reddit_video IN
         IF \E f \in VideoFieldNames : video_info.st[f] # "ok"
         THEN Skip("media")
         ELSE Media(<<RedditPostMediaVideo(video_info.val.fallback_url,
                                           video_info.val.width,
                                           video_info.val.height,
                                           video_info.val.duration)>>)

(***************************************************************************)
(* get_upvoted, the preview branch: entered only when post.get("preview")  *)
(* is truthy, so the key exists and the log line cannot raise.             *)
(***************************************************************************)
preview_branch(post) ==
    IF post.preview.tag # "ok" THEN Skip("preview")
    ELSE Media(<<RedditPostMediaImage(post.preview.url)>>)

\* A slip in the limit: a post of 11 media items is let through.
accept_up_to_eleven(media) ==
    IF media = <<>> \/ Len(media) > 11 THEN Skip("count") ELSE Media(media)

\* The final acceptance rule of get_upvoted.
accept(media) ==
    IF media = <<>> \/ Len(media) > 10 THEN Skip("count") ELSE Media(media)

\* A slip in the branch order: a gallery that yields no item falls through to
\* the video and preview branches.
extract_falling_through(post) ==
    LET g == gallery_branch(post)
        r == IF post.is_gallery /\ g # Media(<<>>) THEN g
             ELSE IF post.is_video THEN video_branch(post)
             ELSE IF post.preview.tag # "falsy" THEN preview_branch(post)
             ELSE Media(<<>>)
    IN IF r.st = "ok" THEN accept(r.media) ELSE r

\* One iteration of the loop of get_upvoted over a post of kind t3.
extract(post) ==
    LET r == IF post.is_gallery THEN gallery_branch(post)
             ELSE IF post.is_video THEN video_branch(post)
             ELSE IF post.preview.tag # "falsy" THEN preview_branch(post)
             ELSE Media(<<>>)
    IN IF r.st = "ok" THEN accept(r.media) ELSE r

\* A slip in the order: the page is walked as it came, newest first ("for
\* post in posts"): with i posts left, the next one is the i-th from the end.
RECURSIVE upvoted_loop_forward(_, _, _, _)
upvoted_loop_forward(children, i, result, skipped) ==
    IF i = 0 THEN [st |-> "return", posts |-> result, skipped |-> skipped]
    ELSE LET post == children[Len(children) - i + 1] IN
         IF post.kind # "t3"
         THEN upvoted_loop_forward(children, i - 1, result, skipped)
         ELSE LET r == extract(post) IN
              IF r.st = "raise" THEN r
              ELSE IF r.st = "skip"
              THEN upvoted_loop_forward(children, i - 1, result,
                                        Append(skipped, post.name))
              ELSE upvoted_loop_forward(children, i - 1,
                       Append(result, RedditPost(post.name, r.media)), skipped)

\* The loop of get_upvoted over reversed(posts): i runs from Len(posts) to 1.
RECURSIVE upvoted_loop(_, _, _, _)
upvoted_loop(children, i, result, skipped) ==
    IF i = 0 THEN [st |-> "return", posts |-> result, skipped |-> skipped]
    ELSE IF children[i].kind # "t3"
    THEN upvoted_loop(children, i - 1, result, skipped)
    ELSE LET r == extract(children[i]) IN
         IF r.st = "raise" THEN r
         ELSE IF r.st = "skip"
         THEN upvoted_loop(children, i - 1, result,
                           Append(skipped, children[i].name))
         ELSE upvoted_loop(children, i - 1,
                           Append(result, RedditPost(children[i].name, r.media)),
                           skipped)

\* get_upvoted on the children of a listing response with status 200.
get_upvoted(children) == upvoted_loop(children, Len(children), <<>>, <<>>)

(***************************************************************************)
(* utils.py flood_wait (main.py _flood_wait is the same code): the wrapped *)
(* coroutine is given by what each of its invocations does: it returns a   *)
(* value, raises FloodWait carrying a wait in seconds, or raises another   *)
(* error.                                                                  *)
(***************************************************************************)
attempts == 5
MaxWait == 2        \* longest wait a FloodWait carries; also the result values

Returns(v) == [k |-> "ok", v |-> v]
FloodWait(seconds) == [k |-> "flood", v |-> seconds]
OtherError == [k |-> "error", v |-> 0]

CallOutcomes ==
    {Returns(v) : v \in 1..MaxWait} \cup {FloodWait(d) : d \in 1..MaxWait}
    \cup {OtherError}

\* "await sleep(seconds)" made after the attempt numbered after failed.
Slept(after, seconds) == [after |-> after, seconds |-> seconds]

\* A slip in the sleep: the wait of the signal is slept, without the extra
\* second.
RECURSIVE flood_loop_exact_wait(_, _, _)
flood_loop_exact_wait(f, i, slept) ==
    IF i >= attempts
    THEN [st |-> "return", value |-> 0, calls |-> i, slept |-> slept]
    ELSE LET r == f[i + 1] IN
         IF r.k = "ok"
         THEN [st |-> "return", value |-> r.v, calls |-> i + 1, slept |-> slept]
         ELSE IF r.k = "flood"
         THEN IF i = attempts - 1
              THEN [st |-> "raise", exc |-> "FloodWait", calls |-> i + 1,
                    slept |-> slept]
              ELSE flood_loop_exact_wait(f, i + 1, Append(slept, Slept(i + 1, r.v)))
         ELSE [st |-> "raise", exc |-> "Error", calls |-> i + 1, slept |-> slept]

\* A slip in the loop: the last attempt is taken to be the one numbered
\* attempts, so a sixth invocation is made.
RECURSIVE flood_loop_one_more(_, _, _)
flood_loop_one_more(f, i, slept) ==
    IF i >= attempts + 1
    THEN [st |-> "return", value |-> 0, calls |-> i, slept |-> slept]
    ELSE LET r == f[i + 1] IN
         IF r.k = "ok"
         THEN [st |-> "return", value |-> r.v, calls |-> i + 1, slept |-> slept]
         ELSE IF r.k = "flood"
         THEN IF i = attempts
              THEN [st |-> "raise", exc |-> "FloodWait", calls |-> i + 1,
                    slept |-> slept]
              ELSE flood_loop_one_more(f, i + 1, Append(slept, Slept(i + 1, r.v + 1)))
         ELSE [st |-> "raise", exc |-> "Error", calls |-> i + 1, slept |-> slept]

\* A slip in the handler: every exception is caught and retried, not only
\* FloodWait ("except Exception").
RECURSIVE flood_loop_retry_any(_, _, _)
flood_loop_retry_any(f, i, slept) ==
    IF i >= attempts
    THEN [st |-> "return", value |-> 0, calls |-> i, slept |-> slept]
    ELSE LET r == f[i + 1] IN
         IF r.k = "ok"
         THEN [st |-> "return", value |-> r.v, calls |-> i + 1, slept |-> slept]
         ELSE IF i = attempts - 1
         THEN [st |-> "raise", exc |-> IF r.k = "flood" THEN "FloodWait" ELSE "Error",
               calls |-> i + 1, slept |-> slept]
         ELSE flood_loop_retry_any(f, i + 1, Append(slept, Slept(i + 1, r.v + 1)))

\* The loop "for i in range(attempts)": calls counts the invocations made,
\* slept lists the sleeps taken, in order, each with the attempt it followed.
RECURSIVE flood_loop(_, _, _)
flood_loop(f, i, slept) ==
    IF i >= attempts
    THEN [st |-> "return", value |-> 0, calls |-> i, slept |-> slept]
    ELSE LET r == f[i + 1] IN
         IF r.k = "ok"
         THEN [st |-> "return", value |-> r.v, calls |-> i + 1, slept |-> slept]
         ELSE IF r.k = "flood"
         THEN IF i = attempts - 1
              THEN [st |-> "raise", exc |-> "FloodWait", calls |-> i + 1,
                    slept |-> slept]
              ELSE flood_loop(f, i + 1, Append(slept, Slept(i + 1, r.v + 1)))
         ELSE [st |-> "raise", exc |-> "Error", calls |-> i + 1, slept |-> slept]

flood_wait(f) == flood_loop(f, 0, <<>>)

IdleRetry ==
    /\ func = <<>>
    /\ waited = NotCalled

(***************************************************************************)
(* reddit_api.py RedditClient: the token pair and its expiry.  None is     *)
(* Python's None; tokens are 1..MaxToken.                                  *)
(***************************************************************************)
None == 0
MaxToken == 2       \* distinct token values the server hands out
MaxLife == 2        \* longest expires_in, in seconds
MaxTime == 4        \* the clock stops advancing here

\* RedditClient.__init__: _expires_at starts at 0.
NewClient(access_token, refresh_token) ==
    [access_token |-> access_token, refresh_token |-> refresh_token,
     expires_at |-> 0]

\* A slip in the test: the access token is looked at instead of the refresh
\* token.
need_oauth_by_access_token(cl) == cl.access_token = None

need_oauth(cl) == cl.refresh_token = None

\* What the token endpoint answers: a status, and for status 200 a body that
\* may lack one of the three fields.
TokenResponses ==
    {[status |-> 401, missing |-> "none", access_token |-> None,
      refresh_token |-> None, expires_in |-> 0]}
    \cup [status : {200},
          missing : {"none", "access_token", "refresh_token", "expires_in"},
          access_token : 1..MaxToken, refresh_token : 1..MaxToken,
          expires_in : 1..MaxLife]

\* No request was made, so there is no answer.
NoResponse ==
    [status |-> 0, missing |-> "none", access_token |-> None,
     refresh_token |-> None, expires_in |-> 0]

Complete(resp) == resp.status = 200 /\ resp.missing = "none"

\* _parse_token_response: three assignments in order, each reading a key of
\* the body; a missing key raises KeyError and leaves the earlier assignments
\* in place.
_parse_token_response(cl, base_time, data) ==
    IF data.missing = "access_token"
    THEN [client |-> cl, st |-> "raise"]
    ELSE IF data.missing = "refresh_token"
    THEN [client |-> [cl EXCEPT !.access_token = data.access_token],
          st |-> "raise"]
    ELSE IF data.missing = "expires_in"
    THEN [client |-> [cl EXCEPT !.access_token = data.access_token,
                                !.refresh_token = data.refresh_token],
          st |-> "raise"]
    ELSE [client |-> [access_token |-> data.access_token,
                      refresh_token |-> data.refresh_token,
                      expires_at |-> base_time + data.expires_in],
          st |-> "return"]

\* The POST to the token endpoint and what both callers do with the answer.
token_request(cl, t, resp) ==
    LET base_token_time == t - 1 IN
    IF resp.status # 200
    THEN [client |-> cl, st |-> "raise", exc |-> "RuntimeError", value |-> None,
          requested |-> TRUE]
    ELSE LET parsed == _parse_token_response(cl, base_token_time, resp) IN
         IF parsed.st = "raise"
         THEN [client |-> parsed.client, st |-> "raise", exc |-> "KeyError",
               value |-> None, requested |-> TRUE]
         ELSE [client |-> parsed.client, st |-> "return", exc |-> "",
               value |-> parsed.client.access_token, requested |-> TRUE]

\* A slip in the expiry test: the token is refreshed from the second of its
\* expiry on.
get_access_token_at_expiry(cl, t, resp) ==
    IF cl.access_token = None \/ t >= cl.expires_at
    THEN token_request(cl, t, resp)
    ELSE [client |-> cl, st |-> "return", exc |-> "", value |-> cl.access_token,
          requested |-> FALSE]

\* _get_access_token at time t, the token endpoint answering resp if asked.
_get_access_token(cl, t, resp) ==
    IF cl.access_token = None \/ t > cl.expires_at
    THEN token_request(cl, t, resp)
    ELSE [client |-> cl, st |-> "return", exc |-> "", value |-> cl.access_token,
          requested |-> FALSE]

\* exchange_oauth_code at time t, the token endpoint answering resp.
exchange_oauth_code(cl, t, resp) == token_request(cl, t, resp)

IdleToken ==
    /\ reddit = NewClient(None, None)
    /\ now = 0
    /\ token_call = NotCalled

(***************************************************************************)
(* state.py: State and the shelve file.  The file is a mapping from keys   *)
(* to values; every statement of dump is a write of its own to the file.   *)
(***************************************************************************)
VERSION == 1
MaxCursor == 2      \* distinct fullnames a stored cursor takes

State(reddit_last_seen_id, access_token, refresh_token) ==
    [reddit_last_seen_id |-> reddit_last_seen_id,
     access_token |-> access_token, refresh_token |-> refresh_token]

EmptyDb == [k \in {} |-> None]

\* db.get("_version", 0)
db_get_version(file) == IF "_version" \in DOMAIN file THEN file["_version"] ELSE 0

\* State.load
load(file) ==
    IF db_get_version(file) >= 1
    THEN IF {"reddit_last_seen_id", "access_token", "refresh_token"}
                \subseteq DOMAIN file
         THEN [st |-> "return",
               value |-> State(file["reddit_last_seen_id"], file["access_token"],
                               file["refresh_token"])]
         ELSE Raise("KeyError")
    ELSE Raise("ValueError")

\* db[key] = value
db_set(file, key, value) ==
    [k \in DOMAIN file \cup {key} |-> IF k = key THEN value ELSE file[k]]

\* A slip in the dump: the shelf is not cleared before the keys are written.
dump_step_without_clear(file, s, i) ==
    CASE i = 0 -> file
      [] i = 1 -> db_set(file, "_version", VERSION)
      [] i = 2 -> db_set(file, "reddit_last_seen_id", s.reddit_last_seen_id)
      [] i = 3 -> db_set(file, "access_token", s.access_token)
      [] i = 4 -> db_set(file, "refresh_token", s.refresh_token)

\* The statement of State.dump that runs after i statements have run.
dump_step(file, s, i) ==
    CASE i = 0 -> EmptyDb
      [] i = 1 -> db_set(file, "_version", VERSION)
      [] i = 2 -> db_set(file, "reddit_last_seen_id", s.reddit_last_seen_id)
      [] i = 3 -> db_set(file, "access_token", s.access_token)
      [] i = 4 -> db_set(file, "refresh_token", s.refresh_token)

DumpLength == 5

\* State.dump run to completion.
dump(file, s) ==
    dump_step(dump_step(dump_step(dump_step(dump_step(file, s, 0), s, 1), s, 2),
                        s, 3), s, 4)

IdleState ==
    /\ db = EmptyDb
    /\ state = State(None, None, None)
    /\ dump_pc = 0
    /\ prev = EmptyDb
    /\ loaded = NotCalled

(***************************************************************************)
(* main.py: its own get_upvoted (no video branch; a post carries the list  *)
(* of its image urls) and the pieces of the run loop.                      *)
(***************************************************************************)
Urls(media) == [i \in 1..Len(media) |-> media[i].url]

MainRedditPost(fullname, images) == [fullname |-> fullname, images |-> images]

main_extract(post) ==
    LET r == IF post.is_gallery THEN gallery_branch(post)
             ELSE IF post.preview.tag # "falsy" THEN preview_branch(post)
             ELSE Media(<<>>)
    IN IF r.st = "ok" THEN accept(r.media) ELSE r

RECURSIVE main_upvoted_loop(_, _, _)
main_upvoted_loop(children, i, result) ==
    IF i = 0 THEN [st |-> "return", posts |-> result]
    ELSE IF children[i].kind # "t3"
    THEN main_upvoted_loop(children, i - 1, result)
    ELSE LET r == main_extract(children[i]) IN
         IF r.st = "raise" THEN r
         ELSE IF r.st = "skip"
         THEN main_upvoted_loop(children, i - 1, result)
         ELSE main_upvoted_loop(children, i - 1,
                  Append(result, MainRedditPost(children[i].name, Urls(r.media))))

main_get_upvoted(children) == main_upvoted_loop(children, Len(children), <<>>)

\* The listing request: sort=new, limit, and before=<cursor> when there is a
\* cursor.  The API answers newest first with the posts upvoted after the
\* cursor (all posts when no cursor is sent), at most limit of them.
Listing(upvoted, last_known_id, limit) ==
    LET first == IF last_known_id # None THEN last_known_id + 1 ELSE 1
        count == IF Len(upvoted) - first + 1 > limit THEN limit
                 ELSE Len(upvoted) - first + 1
    IN [j \in 1..count |-> upvoted[Len(upvoted) - j + 1]]

\* A slip in the cursor update: the first post of the result, the oldest.
advance_to_first(last_known_id, result) ==
    IF result # <<>> THEN result[1].fullname ELSE last_known_id

\* A slip in the cursor update: the cursor is left where it was.
advance_keeps_cursor(last_known_id, result) == last_known_id

\* main, "if posts: reddit_last_known_id = posts[-1].fullname".
advance(last_known_id, result) ==
    IF result # <<>> THEN result[Len(result)].fullname ELSE last_known_id

\* A slip in the group send: every item of the group carries the caption.
SendOfCaptionOnAll(post) ==
    [fullname |-> post.fullname,
     op |-> IF Len(post.images) = 1 THEN "send_photo" ELSE "send_media_group",
     captions |-> [i \in 1..Len(post.images) |-> "caption"]]

\* main, the send of one post: send_photo for one image, send_media_group for
\* several, where only the first item carries the caption.
SendOf(post) ==
    [fullname |-> post.fullname,
     op |-> IF Len(post.images) = 1 THEN "send_photo" ELSE "send_media_group",
     captions |-> [i \in 1..Len(post.images) |-> IF i = 1 THEN "caption" ELSE ""]]

IdleLoop ==
    /\ pc = "off"
    /\ reddit_last_known_id = None
    /\ posts = <<>>
    /\ idx = 0
    /\ sent = <<>>
    /\ notified = FALSE
    /\ failure = "none"
    /\ at_poll = [cursor |-> None, sent |-> 0]
    /\ feed = <<>>
    /\ quiet = 0
    /\ no_new_posts = 0
    /\ probed = NotCalled

(***************************************************************************)
(* Listing pages the model feeds to get_upvoted.                           *)
(***************************************************************************)
MaxPage == 3        \* most posts of a generated page

SeqsUpTo(S, n) == UNION {[1..k -> S] : k \in 0..n}

GalleryOf(kinds) ==
    [BasePost EXCEPT
        !.is_gallery = TRUE,
        !.gallery_data = [tag |-> "ok",
                          items |-> [k \in 1..Len(kinds) |-> GalleryItem(kinds, k)]],
        !.media_metadata = [tag |-> "ok", table |-> GalleryTable(kinds)]]

PreviewOf(tag) ==
    [BasePost EXCEPT !.preview = [tag |-> tag, url |-> <<"p">>]]

VideoOf(tag, st) ==
    [BasePost EXCEPT
        !.is_video = TRUE,
        !.media = [tag |-> tag, reddit_video |-> [st |-> st, val |-> VideoValues(1)]]]

GalleryDataTags == {"absent", "notdict", "noitems", "notlist", "ok"}
MetadataTags == {"absent", "notdict", "ok"}
MediaTags == {"absent", "notdict", "no_rv", "rv_notdict", "ok"}
PreviewTags == {"falsy", "notdict", "noimages", "notlist", "empty", "img_notdict",
                "nosource", "source_notdict", "nourl", "url_notstr", "url_empty",
                "ok"}

GalleryPosts ==
    {GalleryOf(kinds) : kinds \in SeqsUpTo(ItemKinds, MaxItems)}
    \cup {[GalleryOf(<<"ok", "ok">>) EXCEPT !.gallery_data.tag = g,
                                            !.media_metadata.tag = m,
                                            !.preview.tag = p] :
            g \in GalleryDataTags, m \in MetadataTags, p \in {"falsy", "ok"}}

VideoPosts ==
    {[VideoOf(tag, st) EXCEPT !.preview.tag = p] :
        tag \in MediaTags,
        st \in [VideoFieldNames -> {"absent", "wrongtype", "ok"}],
        p \in {"falsy", "ok"}}

\* Galleries around the limit of 10 media items: 10 and 11 usable items, and
\* 11 items of which the first has no url.
LongGalleries ==
    {GalleryOf([k \in 1..n |-> "ok"]) : n \in 10..11}
    \cup {GalleryOf([k \in 1..11 |-> IF k = 1 THEN "no_u" ELSE "ok"])}

PreviewPosts == {PreviewOf(tag) : tag \in PreviewTags}

\* Posts that carry more than one shape: flagged gallery and video, with a
\* complete reddit_video and a preview image.
MixedPosts ==
    {[GalleryOf(kinds) EXCEPT
         !.gallery_data.tag = g,
         !.is_video = TRUE,
         !.media = [tag |-> "ok",
                    reddit_video |-> [st |-> [f \in VideoFieldNames |-> "ok"],
                                      val |-> VideoValues(1)]],
         !.preview = [tag |-> "ok", url |-> <<"p">>]] :
        kinds \in {<<>>, <<"no_media_id">>, <<"no_u">>, <<"ok">>},
        g \in {"notdict", "ok"}}

RawPosts ==
    GalleryPosts \cup LongGalleries \cup VideoPosts \cup PreviewPosts
    \cup MixedPosts
    \cup {[BasePost EXCEPT !.kind = "t1"]}

\* Representative posts for the pages of more than one post.
SmallPool ==
    { PreviewOf("ok"), PreviewOf("falsy"), PreviewOf("nourl"),
      GalleryOf(<<"ok", "ok">>),
      GalleryOf(<<"ok", "unresolved">>),
      [GalleryOf(<<"ok">>) EXCEPT !.gallery_data.tag = "absent"],
      [GalleryOf(<<"ok">>) EXCEPT !.media_metadata.tag = "notdict"],
      VideoOf("ok", [f \in VideoFieldNames |-> "ok"]),
      VideoOf("absent", [f \in VideoFieldNames |-> "ok"]),
      [BasePost EXCEPT !.kind = "t1"] }

\* The API returns the page newest first: the post at position i of a page of
\* n posts gets the fullname n - i + 1, so a larger fullname is a newer post.
Named(children) ==
    [i \in 1..Len(children) |->
        [children[i] EXCEPT !.name = Len(children) - i + 1]]

Pages ==
    {Named(<<p>>) : p \in RawPosts}
    \cup {Named(ps) : ps \in SeqsUpTo(SmallPool, MaxPage)}

(***************************************************************************)
(* SpecExtract: get_upvoted applied to every generated page.               *)
(***************************************************************************)
InitExtract ==
    /\ mode = "extract"
    /\ page \in Pages
    /\ fetched = NotCalled
    /\ IdleRetry
    /\ IdleToken
    /\ IdleState
    /\ IdleLoop

CallGetUpvoted ==
    /\ mode = "extract"
    /\ fetched = NotCalled
    /\ fetched' = get_upvoted(page)
    /\ UNCHANGED <<mode, page, retryVars, tokenVars, stateVars, loopVars>>

NextExtract == CallGetUpvoted

SpecExtract == InitExtract /\ [][NextExtract]_vars

(***************************************************************************)
(* Claims about get_upvoted (SpecExtract).                                 *)
(***************************************************************************)
\* A structural defect of the post: the field its branch reads is missing or
\* of the wrong type.
StructuralDefect(post) ==
    /\ post.kind = "t3"
    /\ IF post.is_gallery
       THEN post.gallery_data.tag # "ok" \/ post.media_metadata.tag # "ok"
       ELSE IF post.is_video
       THEN \/ post.media.tag # "ok"
            \/ \E f \in VideoFieldNames : post.media.reddit_video.st[f] # "ok"
       ELSE post.preview.tag \notin {"falsy", "ok"}

Positions(children, P(_)) == {i \in 1..Len(children) : P(children[i])}

\* The posts of the page that have no structural defect, in page order.
RECURSIVE RestOf(_, _)
RestOf(children, i) ==
    IF i > Len(children) THEN <<>>
    ELSE IF StructuralDefect(children[i]) THEN RestOf(children, i + 1)
    ELSE <<children[i]>> \o RestOf(children, i + 1)

\* C2: in get_upvoted every drop of a post for a structural defect
\* (gallery_data, media_metadata, media or preview missing or of the wrong
\* type) is a reported skip and never an exception: a page holding such a post,
\* whose other posts extract without error, is answered with the eligible posts
\* of the rest of the page, and the defective posts are among the reported skips.
C2_DefectIsReportedSkip ==
    ( /\ fetched # NotCalled
      /\ Positions(page, StructuralDefect) # {}
      /\ get_upvoted(RestOf(page, 1)).st = "return" )
    => /\ fetched.st = "return"
       /\ fetched.posts = get_upvoted(RestOf(page, 1)).posts
       /\ \A i \in Positions(page, StructuralDefect) :
            \E j \in 1..Len(fetched.skipped) : fetched.skipped[j] = page[i].name

\* The images of the gallery items that resolve to a usable url, in item order.
RECURSIVE UsableImages(_, _)
UsableImages(post, k) ==
    LET items == post.gallery_data.items
        table == post.media_metadata.table
    IN IF k > Len(items) THEN <<>>
       ELSE IF /\ items[k].has_media_id
               /\ items[k].media_id \in DOMAIN table
               /\ table[items[k].media_id].kind = "ok"
       THEN <<RedditPostMediaImage(table[items[k].media_id].u)>>
            \o UsableImages(post, k + 1)
       ELSE UsableImages(post, k + 1)

WellFormedGallery(post) ==
    /\ post.kind = "t3"
    /\ post.is_gallery
    /\ post.gallery_data.tag = "ok"
    /\ post.media_metadata.tag = "ok"

\* C3: for a gallery post, an item whose media_id cannot be resolved in
\* media_metadata, or whose metadata lacks a usable url, is omitted while the
\* other items are kept in their original order: the fetch is not aborted, and
\* the post is returned with exactly the usable items whenever there are
\* between 1 and 10 of them.
C3_BadItemOmitted ==
    ( /\ fetched # NotCalled
      /\ Len(page) = 1
      /\ WellFormedGallery(page[1]) )
    => /\ fetched.st = "return"
       /\ LET usable == UsableImages(page[1], 1) IN
          IF Len(usable) \in 1..10
          THEN fetched.posts = <<RedditPost(page[1].name, usable)>>
          ELSE fetched.posts = <<>>

(***************************************************************************)
(* SpecRetry: flood_wait applied to every behaviour of the wrapped call.   *)
(* A behaviour is one invocation longer than the attempt budget, so that a *)
(* wrapper that called once too often would be seen to.                    *)
(***************************************************************************)
IdleExtract ==
    /\ page = <<>>
    /\ fetched = NotCalled

InitRetry ==
    /\ mode = "retry"
    /\ func \in [1..(attempts + 1) -> CallOutcomes]
    /\ waited = NotCalled
    /\ IdleExtract
    /\ IdleToken
    /\ IdleState
    /\ IdleLoop

CallFloodWait ==
    /\ mode = "retry"
    /\ waited = NotCalled
    /\ waited' = flood_wait(func)
    /\ UNCHANGED <<mode, func, extractVars, tokenVars, stateVars, loopVars>>

NextRetry == CallFloodWait

SpecRetry == InitRetry /\ [][NextRetry]_vars

\* How many leading invocations of the behaviour raise FloodWait.
RECURSIVE LeadingFloods(_, _)
LeadingFloods(f, i) ==
    IF i > Len(f) \/ f[i].k # "flood" THEN 0 ELSE 1 + LeadingFloods(f, i + 1)

\* C6: the retry wrapper makes at most 5 attempts: a call that raises the
\* rate-limit signal 5 times in a row ends with that error propagated after
\* exactly 5 invocations, and a call that raises it k times (k <= 4) and then
\* succeeds returns that success value after exactly k + 1 invocations.
C6_AtMostFiveAttempts ==
    waited # NotCalled =>
        LET k == LeadingFloods(func, 1) IN
        /\ waited.calls <= 5
        /\ k >= 5 => /\ waited.st = "raise"
                     /\ waited.exc = "FloodWait"
                     /\ waited.calls = 5
        /\ (k <= 4 /\ func[k + 1].k = "ok")
              => /\ waited.st = "return"
                 /\ waited.value = func[k + 1].v
                 /\ waited.calls = k + 1

\* C6 witness: four rate-limit signals and then a success, returned on the
\* fifth invocation.
C6_Witness ==
    /\ waited # NotCalled
    /\ LeadingFloods(func, 1) = 4
    /\ func[5].k = "ok"
    /\ waited.st = "return"
    /\ waited.calls = 5

\* C20: each rate-limit signal raised on one of the attempts 1 to 4, with a
\* wait of d seconds, is followed by a sleep of exactly d + 1 seconds and then
\* by the next attempt; the signal of the 5th attempt is propagated without a
\* sleep.
C20_SleepsWaitPlusOne ==
    waited # NotCalled =>
        LET k == LeadingFloods(func, 1)
            n == IF k < 5 THEN k ELSE 4
        IN /\ waited.slept = [j \in 1..n |-> Slept(j, func[j].v + 1)]
           /\ waited.calls = Len(waited.slept) + 1
           /\ k >= 5 => /\ waited.st = "raise"
                        /\ waited.exc = "FloodWait"
                        /\ Len(waited.slept) = 4

\* C20 witness: five rate-limit signals with different waits: four sleeps,
\* each one second longer than the wait, and the fifth signal propagated.
C20_Witness ==
    /\ waited # NotCalled
    /\ LeadingFloods(func, 1) >= 5
    /\ func[1].v # func[2].v
    /\ waited.st = "raise"
    /\ Len(waited.slept) = 4
    /\ waited.slept[1].seconds = func[1].v + 1
    /\ waited.slept[4].seconds = func[4].v + 1

(***************************************************************************)
(* SpecToken: the token operations of RedditClient under a clock.          *)
(***************************************************************************)
InitToken ==
    /\ mode = "token"
    /\ reddit \in {NewClient(a, r) : a \in 0..MaxToken, r \in 0..MaxToken}
    /\ now = 1
    /\ token_call = NotCalled
    /\ IdleExtract
    /\ IdleRetry
    /\ IdleState
    /\ IdleLoop

TokenCall(op, r, resp) ==
    /\ reddit' = r.client
    /\ token_call' = [st |-> r.st, op |-> op, before |-> reddit, at |-> now,
                      resp |-> IF r.requested THEN resp ELSE NoResponse,
                      requested |-> r.requested, value |-> r.value]
    /\ UNCHANGED <<mode, now, extractVars, retryVars, stateVars, loopVars>>

CallExchangeCode ==
    /\ mode = "token"
    /\ need_oauth(reddit)
    /\ \E resp \in TokenResponses :
        TokenCall("exchange", exchange_oauth_code(reddit, now, resp), resp)

CallGetAccessToken ==
    /\ mode = "token"
    /\ ~need_oauth(reddit)
    /\ \E resp \in TokenResponses :
        TokenCall("get", _get_access_token(reddit, now, resp), resp)

Tick ==
    /\ mode = "token"
    /\ now < MaxTime
    /\ now' = now + 1
    /\ UNCHANGED <<mode, reddit, token_call, extractVars, retryVars, stateVars,
                   loopVars>>

NextToken == CallExchangeCode \/ CallGetAccessToken \/ Tick

SpecToken == InitToken /\ [][NextToken]_vars

\* The cache was replaced by the complete answer of the token endpoint.
CacheUpdated ==
    /\ reddit.access_token = token_call.resp.access_token
    /\ reddit.refresh_token = token_call.resp.refresh_token
    /\ reddit.expires_at = token_call.at - 1 + token_call.resp.expires_in
    /\ token_call.st = "return"
    /\ token_call.value = token_call.resp.access_token

CacheReturned ==
    /\ ~token_call.requested
    /\ reddit = token_call.before
    /\ token_call.st = "return"
    /\ token_call.value = token_call.before.access_token

\* C7 as stated: _get_access_token returns the cached token without a network
\* call when a token is cached and now < expires_at, and in every other case
\* (no cached token, or now >= expires_at) performs a refresh-token exchange
\* which, when the endpoint answers completely, updates the cache and returns
\* the new token.
C7_RefreshAtExpiry ==
    (token_call.st # "none" /\ token_call.op = "get") =>
        IF /\ token_call.before.access_token # None
           /\ token_call.at < token_call.before.expires_at
        THEN CacheReturned
        ELSE /\ token_call.requested
             /\ Complete(token_call.resp) => CacheUpdated

\* C7 amended: the cached token is returned without a network call when a
\* token is cached and now <= expires_at; in every other case (no cached
\* token, or now > expires_at) a refresh-token exchange is performed, and when
\* it succeeds the cache is updated and the new token returned.
C7_RefreshAfterExpiry ==
    (token_call.st # "none" /\ token_call.op = "get") =>
        IF /\ token_call.before.access_token # None
           /\ token_call.at <= token_call.before.expires_at
        THEN CacheReturned
        ELSE /\ token_call.requested
             /\ Complete(token_call.resp) => CacheUpdated

\* C7 witness: a call at the very second of expiry, answered from the cache.
C7_Witness ==
    /\ token_call.st # "none"
    /\ token_call.op = "get"
    /\ token_call.before.access_token # None
    /\ token_call.at = token_call.before.expires_at
    /\ ~token_call.requested

\* A refresh that replaced an expired cached token by a different one.
C7_WitnessRefresh ==
    /\ token_call.st = "return"
    /\ token_call.op = "get"
    /\ token_call.before.access_token # None
    /\ token_call.at > token_call.before.expires_at
    /\ token_call.before.expires_at > 0
    /\ token_call.value # token_call.before.access_token

(***************************************************************************)
(* SpecState: State.dump statement by statement over any stored record,    *)
(* and State.load of whatever the file holds.  A load while the dump is    *)
(* part-way is the load of a process started after the dumping process     *)
(* stopped there, so no statement of the dump follows it.                  *)
(***************************************************************************)
Keys == {"_version", "reddit_last_seen_id", "access_token", "refresh_token",
         "legacy"}

KeyValues(k) ==
    CASE k = "_version" -> 0..(VERSION + 1)
      [] k = "reddit_last_seen_id" -> 0..MaxCursor
      [] k = "access_token" -> 0..MaxToken
      [] k = "refresh_token" -> 0..MaxToken
      [] k = "legacy" -> {1}

StoredRecords ==
    UNION {{f \in [K -> 0..(VERSION + MaxCursor + MaxToken)] :
                \A k \in K : f[k] \in KeyValues(k)} : K \in SUBSET Keys}

States ==
    {State(c, a, r) : c \in 0..MaxCursor, a \in {None, MaxToken},
                      r \in {None, MaxToken}}

InitState ==
    /\ mode = "state"
    /\ db \in StoredRecords
    /\ state \in States
    /\ dump_pc = 0
    /\ prev = db
    /\ loaded = NotCalled
    /\ IdleExtract
    /\ IdleRetry
    /\ IdleToken
    /\ IdleLoop

DumpStatement ==
    /\ mode = "state"
    /\ loaded = NotCalled
    /\ dump_pc < DumpLength
    /\ db' = dump_step(db, state, dump_pc)
    /\ dump_pc' = dump_pc + 1
    /\ UNCHANGED <<mode, state, prev, loaded, extractVars, retryVars, tokenVars,
                   loopVars>>

CallLoad ==
    /\ mode = "state"
    /\ loaded = NotCalled
    /\ loaded' = load(db)
    /\ UNCHANGED <<mode, db, state, dump_pc, prev, extractVars, retryVars,
                   tokenVars, loopVars>>

NextState == DumpStatement \/ CallLoad

SpecState == InitState /\ [][NextState]_vars

\* C8: State.load fails for every stored record whose version is absent or is
\* not State.VERSION, and returns a State only for a record of that version.
C8_UnknownVersionFails ==
    loaded # NotCalled =>
        /\ ("_version" \notin DOMAIN db \/ db["_version"] # VERSION)
              => loaded.st = "raise"
        /\ loaded.st = "return"
              => ("_version" \in DOMAIN db /\ db["_version"] = VERSION)

\* A complete record of the known version, as a completed dump leaves it.
CompleteRecord(file) ==
    /\ DOMAIN file = Keys \ {"legacy"}
    /\ file["_version"] = VERSION

\* C9: State.dump replaces the stored record atomically: wherever the dumping
\* process stops, a later State.load returns either the complete previous
\* record or the complete new one.
C9_DumpIsAtomic ==
    (loaded # NotCalled /\ CompleteRecord(prev)) =>
        /\ loaded.st = "return"
        /\ loaded.value \in {load(prev).value, state}

(***************************************************************************)
(* SpecLoop: main of main.py against a feed of upvoted posts that grows.   *)
(* Every await is a step: the poll, the notification of a failed poll, the *)
(* two sleeps and the delivery of one post.  An exception that no handler  *)
(* of main catches leaves main: pc = "halted".                             *)
(***************************************************************************)
MaxFeed == 3        \* most posts the user upvotes in a run
MaxQuiet == 30      \* most empty cycles in a row that are counted

\* The payloads the feed holds: an image post, a two-image gallery, a post
\* without media, a gallery whose payload lacks gallery_data.
FeedPool ==
    { PreviewOf("ok"), GalleryOf(<<"ok", "ok">>), PreviewOf("falsy"),
      [GalleryOf(<<"ok">>) EXCEPT !.gallery_data.tag = "absent"] }

\* The answers of the token endpoint the run loop is checked against.
LoopTokenResponses ==
    {resp \in TokenResponses :
        resp.status = 200 => /\ resp.access_token = MaxToken
                             /\ resp.refresh_token = 1
                             /\ resp.expires_in = MaxLife}

\* What the wrapped send does: k rate-limit signals, then a value or an error.
SendBehaviours ==
    {[i \in 1..(attempts + 1) |-> IF i <= k THEN FloodWait(1) ELSE x] :
        k \in 0..attempts, x \in {Returns(1), OtherError}}

\* main runs in the loop specification and in the quiet one, where the feed
\* is what it was at the start.
LoopModes == {"loop", "quiet"}

InitLoop ==
    /\ mode = "loop"
    /\ pc = "start"
    /\ reddit \in {NewClient(a, r) : a \in {None, 1}, r \in {None, 1}}
    /\ now = 1
    /\ token_call = NotCalled
    /\ reddit_last_known_id = None
    /\ posts = <<>>
    /\ idx = 0
    /\ sent = <<>>
    /\ notified = FALSE
    /\ failure = "none"
    /\ at_poll = [cursor |-> None, sent |-> 0]
    /\ feed = <<>>
    /\ quiet = 0
    /\ no_new_posts = 0
    /\ probed = NotCalled
    /\ db = dump(EmptyDb, State(None, reddit.access_token, reddit.refresh_token))
    /\ state = State(None, None, None)
    /\ dump_pc = 0
    /\ prev = EmptyDb
    /\ loaded = NotCalled
    /\ IdleExtract
    /\ IdleRetry

\* The user upvotes a post.
Upvote ==
    /\ mode = "loop"
    /\ Len(feed) < MaxFeed
    /\ \E p \in FeedPool : feed' = Append(feed, [p EXCEPT !.name = Len(feed) + 1])
    /\ UNCHANGED <<mode, pc, reddit_last_known_id, posts, idx, sent, notified,
                   failure, at_poll, quiet, no_new_posts, probed,
                   extractVars, retryVars, tokenVars, stateVars>>

\* main, "if reddit.need_oauth(): ... exchange_oauth_code(code)".  token_call
\* records the exchange.
Startup ==
    /\ mode \in LoopModes
    /\ pc = "start"
    /\ IF need_oauth(reddit)
       THEN \E resp \in LoopTokenResponses :
              LET r == exchange_oauth_code(reddit, now, resp) IN
              /\ reddit' = r.client
              /\ token_call' = [st |-> r.st, op |-> "exchange", before |-> reddit,
                                at |-> now, resp |-> resp, requested |-> TRUE,
                                value |-> r.value]
              /\ pc' = IF r.st = "return" THEN "poll" ELSE "halted"
              /\ failure' = IF r.st = "return" THEN "none" ELSE "oauth"
       ELSE /\ pc' = "poll"
            /\ UNCHANGED <<reddit, token_call, failure>>
    /\ UNCHANGED <<mode, now, reddit_last_known_id, posts, idx, sent, notified,
                   at_poll, feed, quiet, no_new_posts, probed,
                   extractVars, retryVars, stateVars>>

\* main, "posts = await reddit.get_upvoted(...)" inside try: the token, the
\* listing request, the extraction.
Poll ==
    /\ mode \in LoopModes
    /\ pc = "poll"
    /\ \E t \in {now, now + 1}, resp \in LoopTokenResponses, status \in {200, 500} :
        LET tok == _get_access_token(reddit, t, resp)
            got == IF tok.st = "raise" THEN Raise("RuntimeError")
                   ELSE IF status # 200 THEN Raise("RuntimeError")
                   ELSE main_get_upvoted(Listing(feed, reddit_last_known_id, 100))
        IN /\ t <= MaxTime
           /\ now' = t
           /\ reddit' = tok.client
           /\ IF got.st = "raise"
              THEN /\ pc' = "notify"
                   /\ failure' = "poll"
                   /\ UNCHANGED <<posts, idx>>
              ELSE /\ pc' = "deliver"
                   /\ failure' = "none"
                   /\ posts' = got.posts
                   /\ idx' = 1
    /\ notified' = FALSE
    /\ at_poll' = [cursor |-> reddit_last_known_id, sent |-> Len(sent)]
    /\ UNCHANGED <<mode, token_call, reddit_last_known_id, sent, feed, quiet,
                   no_new_posts, probed, extractVars, retryVars, stateVars>>

\* main, the except branch: "await bot.send_message(log_chat_id, ...)", which
\* is awaited outside any try.
NotifyPollFailure ==
    /\ mode \in LoopModes
    /\ pc = "notify"
    /\ \E outcome \in {Returns(1), FloodWait(1), OtherError} :
        IF outcome.k = "ok"
        THEN /\ notified' = TRUE
             /\ pc' = "sleep300"
             /\ UNCHANGED failure
        ELSE /\ pc' = "halted"
             /\ failure' = "notify"
             /\ UNCHANGED notified
    /\ UNCHANGED <<mode, reddit_last_known_id, posts, idx, sent, at_poll, feed,
                   quiet, no_new_posts, probed,
                   extractVars, retryVars, tokenVars, stateVars>>

\* main, "await sleep(60 * 5); continue".
Sleep300 ==
    /\ mode \in LoopModes
    /\ pc = "sleep300"
    /\ pc' = "poll"
    /\ failure' = "none"
    /\ UNCHANGED <<mode, reddit_last_known_id, posts, idx, sent, notified, at_poll,
                   feed, quiet, no_new_posts, probed,
                   extractVars, retryVars, tokenVars, stateVars>>

\* main, one iteration of "for post in posts": the downloads, then the send
\* through _flood_wait.  Neither is inside a try.
DeliverPost ==
    /\ mode \in LoopModes
    /\ pc = "deliver"
    /\ idx <= Len(posts)
    /\ LET post == posts[idx] IN
       IF post.images = <<>> \/ Len(post.images) > 10
       THEN /\ idx' = idx + 1
            /\ UNCHANGED <<pc, sent, failure>>
       ELSE \E download \in {"ok", "error"}, f \in SendBehaviours :
              IF download = "error"
              THEN /\ pc' = "halted"
                   /\ failure' = "download"
                   /\ UNCHANGED <<idx, sent>>
              ELSE IF flood_wait(f).st = "raise"
              THEN /\ pc' = "halted"
                   /\ failure' = "send"
                   /\ UNCHANGED <<idx, sent>>
              ELSE /\ sent' = Append(sent, SendOf(post))
                   /\ idx' = idx + 1
                   /\ UNCHANGED <<pc, failure>>
    /\ UNCHANGED <<mode, reddit_last_known_id, posts, notified, at_poll, feed,
                   quiet, no_new_posts, probed,
                   extractVars, retryVars, tokenVars, stateVars>>

\* main, after the for loop: "if posts: reddit_last_known_id = ..." else the
\* log line "No new upvoted posts", and the call of sleep(60).  Neither branch
\* assigns a counter or calls refetch_upvoted_maybe.
Advance ==
    /\ mode \in LoopModes
    /\ pc = "deliver"
    /\ idx > Len(posts)
    /\ reddit_last_known_id' = advance(reddit_last_known_id, posts)
    /\ pc' = "sleep60"
    /\ quiet' = IF mode # "quiet" THEN quiet
                ELSE IF posts # <<>> THEN 0
                ELSE IF quiet < MaxQuiet THEN quiet + 1 ELSE quiet
    /\ UNCHANGED <<mode, posts, idx, sent, notified, failure, at_poll, feed,
                   no_new_posts, probed,
                   extractVars, retryVars, tokenVars, stateVars>>

\* main, "await sleep(60)" returns and the while loop starts over.
Sleep60 ==
    /\ mode \in LoopModes
    /\ pc = "sleep60"
    /\ pc' = "poll"
    /\ UNCHANGED <<mode, reddit_last_known_id, posts, idx, sent, notified, failure,
                   at_poll, feed, quiet, no_new_posts, probed,
                   extractVars, retryVars, tokenVars, stateVars>>

NextLoop ==
    \/ Upvote
    \/ Startup
    \/ Poll
    \/ NotifyPollFailure
    \/ Sleep300
    \/ DeliverPost
    \/ Advance
    \/ Sleep60

SpecLoop == InitLoop /\ [][NextLoop]_vars

(***************************************************************************)
(* Claims about the run loop (SpecLoop).                                   *)
(***************************************************************************)
\* C1: if downloading or sending the media of one post fails, the failure is
\* caught for that post alone: the operator chat is notified and main goes on
\* with the later posts of the page and the end of the cycle.
C1_DeliveryFailureIsolated ==
    failure \in {"download", "send"} =>
        /\ notified
        /\ pc \in {"deliver", "sleep60", "poll"}

\* C4: after any cycle whose poll returned at least one post, the cursor is
\* the fullname of the last post of the fetch result, which is in
\* chronological order, so it is the newest post returned.
C4_CursorIsLastFetched ==
    (pc = "sleep60" /\ posts # <<>>) =>
        /\ reddit_last_known_id = posts[Len(posts)].fullname
        /\ \A i \in 1..Len(posts) : posts[i].fullname <= reddit_last_known_id

\* C4 witness: a cycle that fetched two posts has ended and moved the cursor
\* to the second of them.
C4_Witness ==
    /\ pc = "sleep60"
    /\ Len(posts) = 2
    /\ Len(sent) >= 2
    /\ reddit_last_known_id = posts[2].fullname
    /\ reddit_last_known_id # at_poll.cursor

\* C5: when the poll of a cycle fails, the operator chat is notified, no post
\* is delivered in that cycle, the loop sleeps 5 minutes before it polls
\* again, and the cursor is the one the failed poll was made with.
C5_PollFailureHandled ==
    failure \in {"poll", "notify"} =>
        /\ pc = "notify" \/ (pc = "sleep300" /\ notified)
        /\ reddit_last_known_id = at_poll.cursor
        /\ Len(sent) = at_poll.sent

\* C10: the state record is written to the store at the end of every cycle
\* whose poll succeeded and right after every token refresh: once a poll has
\* succeeded, and when its cycle ends, the stored record loads as the cursor
\* and token pair in memory.
C10_StoreFollowsMemory ==
    pc \in {"deliver", "sleep60"} =>
        /\ load(db).st = "return"
        /\ load(db).value = State(reddit_last_known_id, reddit.access_token,
                                  reddit.refresh_token)

\* C11: the only error that ends main is a failed authorization-code exchange
\* at startup: once the poll loop has started, no failure of a poll, a token
\* refresh, a media download, a channel send or an operator notification
\* ends it.
C11_OnlyOauthHalts ==
    pc = "halted" => failure = "oauth"

(***************************************************************************)
(* SpecQuiet: main of main.py while the user upvotes nothing new: the feed *)
(* is the one of the start, so after the first delivery every successful   *)
(* poll returns an empty page.                                             *)
(***************************************************************************)
\* The feeds of at most n posts drawn from pool: feed[i] has fullname i.
Feeds(pool, n) ==
    {[i \in 1..Len(ps) |-> [ps[i] EXCEPT !.name = i]] : ps \in SeqsUpTo(pool, n)}

InitQuiet ==
    /\ mode = "quiet"
    /\ pc = "start"
    /\ reddit \in {NewClient(a, r) : a \in {None, 1}, r \in {None, 1}}
    /\ now = 1
    /\ token_call = NotCalled
    /\ reddit_last_known_id = None
    /\ posts = <<>>
    /\ idx = 0
    /\ sent = <<>>
    /\ notified = FALSE
    /\ failure = "none"
    /\ at_poll = [cursor |-> None, sent |-> 0]
    /\ feed \in Feeds(FeedPool, MaxFeed)
    /\ quiet = 0
    /\ no_new_posts = 0
    /\ probed = NotCalled
    /\ db = dump(EmptyDb, State(None, reddit.access_token, reddit.refresh_token))
    /\ state = State(None, None, None)
    /\ dump_pc = 0
    /\ prev = EmptyDb
    /\ loaded = NotCalled
    /\ IdleExtract
    /\ IdleRetry

NextQuiet ==
    \/ Startup
    \/ Poll
    \/ NotifyPollFailure
    \/ Sleep300
    \/ DeliverPost
    \/ Advance
    \/ Sleep60

SpecQuiet == InitQuiet /\ [][NextQuiet]_vars

\* C12: the run loop counts the cycles without new posts: when 30 cycles in a
\* row have had an empty poll, the recovery probe refetch_upvoted_maybe has
\* been invoked (once, at the 30th), and a failed probe lowers the counter by
\* 5 instead of resetting it.
C12_ProbeAfterThirtyEmptyCycles ==
    quiet >= 30 => probed # NotCalled

(***************************************************************************)
(* reddit_api.py refetch_upvoted_maybe, and get_upvoted with its request:  *)
(* the params, the token, the status check and the extraction.             *)
(***************************************************************************)
\* "params = {sort, t, limit, raw_json}" and "before" when a cursor is given:
\* before = None stands for a request without the key.
upvoted_params(last_known_id, limit) ==
    [sort |-> "new", t |-> "week", limit |-> limit, before |-> last_known_id]

\* get_upvoted(username, last_known_id, limit) at time t against the feed
\* upvoted: requests lists the params of the listing requests that were sent.
request_upvoted(cl, t, resp, status, upvoted, last_known_id, limit) ==
    LET params == upvoted_params(last_known_id, limit)
        tok == _get_access_token(cl, t, resp)
        r == IF tok.st = "raise" THEN Raise(tok.exc)
             ELSE IF status # 200 THEN Raise("RuntimeError")
             ELSE get_upvoted(Listing(upvoted, params.before, params.limit))
    IN [st |-> r.st, client |-> tok.client,
        requests |-> IF tok.st = "raise" THEN <<>> ELSE <<params>>,
        posts |-> IF r.st = "return" THEN r.posts ELSE <<>>]

\* An optional post: "return None" and "return upvoted[0]".
NoPost == <<>>
SomePost(post) == <<post>>

\* A slip in the probe: the newest post is returned whatever the cursor is.
refetch_upvoted_always(cl, t, resp, status, upvoted, last_known_id) ==
    LET r == request_upvoted(cl, t, resp, status, upvoted, None, 1) IN
    [st |-> r.st, client |-> r.client, requests |-> r.requests,
     value |-> IF r.st = "raise" \/ r.posts = <<>> THEN NoPost
               ELSE SomePost(r.posts[1])]

refetch_upvoted_maybe(cl, t, resp, status, upvoted, last_known_id) ==
    LET r == request_upvoted(cl, t, resp, status, upvoted, None, 1) IN
    [st |-> r.st, client |-> r.client, requests |-> r.requests,
     value |-> IF r.st = "raise" THEN NoPost
               ELSE IF r.posts = <<>> THEN NoPost
               ELSE IF last_known_id = r.posts[1].fullname THEN NoPost
               ELSE SomePost(r.posts[1])]

(***************************************************************************)
(* SpecProbe: refetch_upvoted_maybe applied to every feed of at most       *)
(* MaxFeed posts and every cursor.                                         *)
(***************************************************************************)
InitProbe ==
    /\ mode = "probe"
    /\ pc = "off"
    /\ reddit = NewClient(1, 1)
    /\ now = 1
    /\ token_call = NotCalled
    /\ reddit_last_known_id \in 0..MaxFeed
    /\ posts = <<>>
    /\ idx = 0
    /\ sent = <<>>
    /\ notified = FALSE
    /\ failure = "none"
    /\ at_poll = [cursor |-> None, sent |-> 0]
    /\ feed \in Feeds(SmallPool, MaxFeed)
    /\ quiet = 0
    /\ no_new_posts = 0
    /\ probed = NotCalled
    /\ IdleExtract
    /\ IdleRetry
    /\ IdleState

CallRefetchUpvotedMaybe ==
    /\ mode = "probe"
    /\ probed = NotCalled
    /\ \E resp \in LoopTokenResponses, status \in {200, 500} :
        LET r == refetch_upvoted_maybe(reddit, now, resp, status, feed,
                                       reddit_last_known_id)
        IN /\ probed' = [st |-> r.st, requests |-> r.requests, value |-> r.value]
           /\ reddit' = r.client
    /\ UNCHANGED <<mode, now, token_call, pc, reddit_last_known_id, posts, idx,
                   sent, notified, failure, at_poll, feed, quiet, no_new_posts,
                   extractVars, retryVars, stateVars>>

NextProbe == CallRefetchUpvotedMaybe

SpecProbe == InitProbe /\ [][NextProbe]_vars

\* The newest post of the feed is one get_upvoted returns.
NewestObtained ==
    /\ feed # <<>>
    /\ feed[Len(feed)].kind = "t3"
    /\ extract(feed[Len(feed)]).st = "ok"

\* C13: refetch_upvoted_maybe sends one listing request, with limit 1 and
\* without a before filter, and when it returns, it returns the newest
\* upvoted post exactly if one was obtained and its fullname is not the
\* cursor; it returns nothing when the fullname is the cursor or nothing was
\* obtained.
C13_ProbeReturnsNewestIfAdvanced ==
    probed # NotCalled =>
        /\ \A i \in 1..Len(probed.requests) :
              /\ i = 1
              /\ probed.requests[i].limit = 1
              /\ probed.requests[i].before = None
        /\ probed.st = "return" =>
              /\ Len(probed.requests) = 1
              /\ probed.value =
                    IF NewestObtained /\ feed[Len(feed)].name # reddit_last_known_id
                    THEN SomePost(RedditPost(feed[Len(feed)].name,
                                             extract(feed[Len(feed)]).media))
                    ELSE NoPost

\* C13 witness: with a cursor on an older post, the probe returned the newest
\* post of a feed of several.
C13_Witness ==
    /\ probed # NotCalled
    /\ probed.st = "return"
    /\ Len(feed) >= 2
    /\ reddit_last_known_id = Len(feed) - 1
    /\ probed.value # NoPost
    /\ probed.value[1].fullname = Len(feed)

C15_MediaCountBounds ==
    fetched # NotCalled =>
        /\ fetched.st = "return" =>
              \A i \in 1..Len(fetched.posts) :
                  Len(fetched.posts[i].media) \in 1..10
        /\ main_get_upvoted(page).st = "return" =>
              \A i \in 1..Len(main_get_upvoted(page).posts) :
                  Len(main_get_upvoted(page).posts[i].images) \in 1..10
        /\ (fetched.st = "return" /\ Len(page) = 1 /\ WellFormedGallery(page[1])) =>
              LET usable == UsableImages(page[1], 1) IN
              IF Len(usable) \in 1..10
              THEN fetched.posts = <<RedditPost(page[1].name, usable)>>
              ELSE /\ fetched.posts = <<>>
                   /\ fetched.skipped = <<page[1].name>>

\* C15 witness: a gallery of 11 usable items was skipped.
C15_Witness ==
    /\ fetched # NotCalled
    /\ fetched.st = "return"
    /\ Len(page) = 1
    /\ WellFormedGallery(page[1])
    /\ Len(UsableImages(page[1], 1)) = 11
    /\ fetched.posts = <<>>
    /\ fetched.skipped = <<page[1].name>>

\* C16: main enters the authorization-code exchange at startup exactly when
\* the client holds no refresh token, and gets past it only by a successful
\* exchange: wherever main is in the poll loop a refresh token is held, a
\* failed exchange leaves main halted, and an exchange was made exactly if
\* no refresh token was held at startup.
C16_PollOnlyWhenAuthorized ==
    /\ pc \in {"poll", "notify", "sleep300", "deliver", "sleep60"} =>
          /\ reddit.refresh_token # None
          /\ token_call # NotCalled => token_call.st = "return"
    /\ failure = "oauth" => pc = "halted"
    /\ token_call # NotCalled =>
          /\ token_call.op = "exchange"
          /\ token_call.before.refresh_token = None
    /\ (pc # "start" /\ token_call = NotCalled) =>
          /\ db["refresh_token"] # None
          /\ reddit.refresh_token # None

\* C16 witness: main started without a refresh token, the exchange succeeded
\* and a poll has been made.
C16_Witness ==
    /\ pc = "deliver"
    /\ token_call # NotCalled
    /\ token_call.op = "exchange"
    /\ token_call.st = "return"
    /\ token_call.before.refresh_token = None
    /\ reddit.refresh_token # None

\* The media items of the posts of the result, as a set.
ReturnedMedia ==
    UNION {{fetched.posts[i].media[k] : k \in 1..Len(fetched.posts[i].media)} :
              i \in 1..Len(fetched.posts)}

\* C17: extraction tries the gallery shape, then native video, then the
\* preview image, and the first shape the post is flagged with decides: a
\* post flagged gallery is extracted from its gallery items alone, even when
\* they yield nothing, and a post flagged video (and not gallery) is never
\* extracted from its preview image.
C17_FirstShapeDecides ==
    (fetched # NotCalled /\ fetched.st = "return" /\ Len(page) = 1
        /\ page[1].kind = "t3") =>
        LET post == page[1] IN
        /\ post.is_gallery =>
              /\ \A m \in ReturnedMedia :
                    /\ m.cls = "image"
                    /\ \E k \in 1..Len(post.gallery_data.items) : m.url = UrlOf(k)
              /\ (~WellFormedGallery(post) \/ UsableImages(post, 1) = <<>>) =>
                    fetched.posts = <<>>
        /\ (~post.is_gallery /\ post.is_video) =>
              /\ \A m \in ReturnedMedia :
                    /\ m.cls = "video"
                    /\ m.url = post.media.reddit_video.val.fallback_url
              /\ (\E f \in VideoFieldNames : post.media.reddit_video.st[f] # "ok")
                    => fetched.posts = <<>>
        /\ (~post.is_gallery /\ ~post.is_video /\ post.preview.tag = "ok") =>
              fetched.posts =
                  <<RedditPost(post.name, <<RedditPostMediaImage(post.preview.url)>>)>>

\* C17 witness: a post flagged gallery whose items yield nothing was skipped
\* although it carries a complete video and a preview image.
C17_Witness ==
    /\ fetched # NotCalled
    /\ fetched.st = "return"
    /\ Len(page) = 1
    /\ WellFormedGallery(page[1])
    /\ UsableImages(page[1], 1) = <<>>
    /\ page[1].is_video
    /\ page[1].media.tag = "ok"
    /\ \A f \in VideoFieldNames : page[1].media.reddit_video.st[f] = "ok"
    /\ page[1].preview.tag = "ok"
    /\ fetched.posts = <<>>

\* The post carries a reddit_video with its four fields of the right types.
CompleteVideo(post) ==
    /\ post.media.tag = "ok"
    /\ \A f \in VideoFieldNames : post.media.reddit_video.st[f] = "ok"

\* C18: a post flagged as native video yields exactly one video item, which
\* carries the fallback url, width, height and duration, when all four fields
\* are present with the right types; when any of them is missing or of the
\* wrong type the post is skipped and no video record is made of it.
C18_VideoAllOrNothing ==
    (fetched # NotCalled /\ Len(page) = 1 /\ page[1].kind = "t3"
        /\ ~page[1].is_gallery /\ page[1].is_video) =>
        LET post == page[1]
            video_info == post.media.reddit_video.val
        IN /\ fetched.st = "return"
           /\ IF CompleteVideo(post)
              THEN fetched.posts =
                     <<RedditPost(post.name,
                          <<RedditPostMediaVideo(video_info.fallback_url,
                               video_info.width, video_info.height,
                               video_info.duration)>>)>>
              ELSE /\ fetched.posts = <<>>
                   /\ fetched.skipped = <<post.name>>

\* The positions of the page, newest first, whose post get_upvoted returns.
Eligible(children) ==
    {i \in 1..Len(children) :
        children[i].kind = "t3" /\ extract(children[i]).st = "ok"}

\* C19: get_upvoted walks the newest-first page in reverse, so its result is
\* the eligible posts of the page oldest first: the returned posts are the
\* eligible ones, of two returned posts the later one stood earlier in the
\* page (it is the newer one), and the last one is the newest eligible post.
C19_OldestFirst ==
    (fetched # NotCalled /\ fetched.st = "return") =>
        /\ {fetched.posts[k].fullname : k \in 1..Len(fetched.posts)}
              = {page[i].name : i \in Eligible(page)}
        /\ Len(fetched.posts) = Cardinality(Eligible(page))
        /\ \A k, l \in 1..Len(fetched.posts) :
              k < l =>
                \E i, j \in Eligible(page) :
                    /\ page[i].name = fetched.posts[k].fullname
                    /\ page[j].name = fetched.posts[l].fullname
                    /\ j < i
        /\ fetched.posts # <<>> =>
              \E i \in Eligible(page) :
                  /\ page[i].name = fetched.posts[Len(fetched.posts)].fullname
                  /\ \A j \in Eligible(page) : i <= j

\* C19 witness: a page of three posts of which the newest and the oldest are
\* eligible was returned as the oldest, then the newest.
C19_Witness ==
    /\ fetched # NotCalled
    /\ fetched.st = "return"
    /\ Len(page) = 3
    /\ Eligible(page) = {1, 3}
    /\ Len(fetched.posts) = 2
    /\ fetched.posts[1].fullname = page[3].name
    /\ fetched.posts[2].fullname = page[1].name

(***************************************************************************)
(* Claims about the delivery of the posts of a cycle (SpecLoop).           *)
(***************************************************************************)
\* C21: for each delivered post exactly one send is made through the retry
\* wrapper: the sends of a cycle are one per post delivered so far, in the
\* order of the posts; a post of one item is sent by send_photo with the
\* caption, a post of several items by one send_media_group in which only
\* the first item carries the caption and every other caption is empty.
C21_OneSendPerPost ==
    pc \in {"deliver", "sleep60"} =>
        /\ Len(sent) = at_poll.sent + idx - 1
        /\ \A k \in 1..(idx - 1) :
              LET e == sent[at_poll.sent + k]
                  n == Len(posts[k].images)
              IN /\ e.fullname = posts[k].fullname
                 /\ Len(e.captions) = n
                 /\ e.captions[1] = "caption"
                 /\ \A i \in 2..n : e.captions[i] = ""
                 /\ e.op = IF n = 1 THEN "send_photo" ELSE "send_media_group"

\* C21 witness: a cycle delivered a post of one image by send_photo and a
\* post of two images by one send_media_group.
C21_Witness ==
    /\ pc = "sleep60"
    /\ Len(posts) = 2
    /\ Len(sent) = at_poll.sent + 2
    /\ \E k, l \in 1..Len(sent) :
          /\ sent[k].op = "send_photo"
          /\ sent[l].op = "send_media_group"
          /\ sent[l].captions = <<"caption", "">>

\* C22: within one run, with a listing that answers only posts newer than
\* the cursor it is given, no post is handed to a send in two different
\* cycles: every post is sent at most once, and the sends are in the order
\* of the upvotes.
C22_SentAtMostOnce ==
    \A k, l \in 1..Len(sent) :
        k < l => sent[k].fullname < sent[l].fullname

\* C22 witness: posts were sent in two different cycles: one in an earlier
\* cycle and one, upvoted later, in the cycle that has just ended.
C22_Witness ==
    /\ pc = "sleep60"
    /\ at_poll.sent >= 1
    /\ Len(sent) > at_poll.sent
    /\ at_poll.cursor = sent[at_poll.sent].fullname

(***************************************************************************)
(* More claims about the token operations (SpecToken).                     *)
(***************************************************************************)
\* C23: a token exchange or refresh that fails, by a status other than 200 or
\* by an answer that lacks access_token, refresh_token or expires_in, leaves
\* the cached credential as it was: the access token, the refresh token and
\* the expiry are updated all together or not at all.
C23_FailedTokenCallKeepsCredential ==
    (token_call # NotCalled /\ token_call.st = "raise") =>
        reddit = token_call.before

(***************************************************************************)
(* More claims about flood_wait (SpecRetry).                               *)
(***************************************************************************)
\* The first invocation of the wrapped call, from the i-th on, that does not
\* raise the rate-limit signal; Len(f) + 1 when there is none.
RECURSIVE FirstNonFlood(_, _)
FirstNonFlood(f, i) ==
    IF i > Len(f) \/ f[i].k # "flood" THEN i ELSE FirstNonFlood(f, i + 1)

\* C24: an error of the wrapped call that is not the rate-limit signal is
\* propagated on the attempt where it occurs, with no further attempt and no
\* sleep after it; and in every execution the wrapped call is invoked at
\* least once and at most 5 times.
C24_OtherErrorPropagatedAtOnce ==
    waited # NotCalled =>
        LET j == FirstNonFlood(func, 1) IN
        /\ waited.calls >= 1
        /\ waited.calls <= 5
        /\ (j <= 5 /\ func[j].k = "error") =>
              /\ waited.st = "raise"
              /\ waited.exc = "Error"
              /\ waited.calls = j
              /\ Len(waited.slept) = j - 1
              /\ \A n \in 1..Len(waited.slept) : waited.slept[n].after < j

\* C24 witness: two rate-limit signals, then another error on the third
\* attempt, propagated after three invocations and two sleeps.
C24_Witness ==
    /\ waited # NotCalled
    /\ FirstNonFlood(func, 1) = 3
    /\ func[3].k = "error"
    /\ waited.st = "raise"
    /\ waited.exc = "Error"
    /\ waited.calls = 3
    /\ Len(waited.slept) = 2

(***************************************************************************)
(* More claims about State (SpecState).                                    *)
(***************************************************************************)
\* C25: the round trip of State: for every State s and every content the
\* store had before, once s.dump has run to its end the store holds the
\* version and the three fields of s and no key of the earlier content, and
\* State.load returns a State with the cursor, the access token and the
\* refresh token of s.
C25_RoundTrip ==
    dump_pc = DumpLength =>
        /\ DOMAIN db = {"_version", "reddit_last_seen_id", "access_token",
                        "refresh_token"}
        /\ load(db).st = "return"
        /\ load(db).value.reddit_last_seen_id = state.reddit_last_seen_id
        /\ load(db).value.access_token = state.access_token
        /\ load(db).value.refresh_token = state.refresh_token
        /\ loaded # NotCalled =>
              /\ loaded.st = "return"
              /\ loaded.value = state

\* C25 witness: the store held a record of an unknown version with a key of
\* its own and other field values; the dump ran to its end and the load
\* returned the dumped State.
C25_Witness ==
    /\ dump_pc = DumpLength
    /\ "legacy" \in DOMAIN prev
    /\ "_version" \in DOMAIN prev
    /\ prev["_version"] # VERSION
    /\ "access_token" \in DOMAIN prev
    /\ prev["access_token"] # state.access_token
    /\ loaded # NotCalled
    /\ loaded.st = "return"
    /\ loaded.value = state
    /\ "legacy" \notin DOMAIN db

====
